---- MODULE Spec2Model ----
(***************************************************************************)
(* Quick Save On Discord: the change-gated upload pipeline of              *)
(* src/__init__.py.  The foreground context (save handler, Send Now        *)
(* operator, depsgraph handler, timer callbacks, property edits) and the   *)
(* background threads running process_send are modelled as one state       *)
(* machine; every background thread advances one blocking call at a time.  *)
(***************************************************************************)
EXTENDS Integers, Sequences, FiniteSets, Bags, TLC

VARIABLES
    settings,               \* scene.discord_project_settings (DiscordProjectSettings)
    REAL_CHANGE_DETECTED,   \* module global _REAL_CHANGE_DETECTED
    CHANGE_TYPES,           \* module global _CHANGE_TYPES
    filepath,               \* bpy.data.filepath
    disk,                   \* the saved files: path -> bytes
    now,                    \* time.monotonic()
    jobs,                   \* bag of the live process_send threads and pending save_state timers
    event                   \* what the step just taken decided and reported to the user

vars == <<settings, REAL_CHANGE_DETECTED, CHANGE_TYPES, filepath, disk, now, jobs, event>>

----------------------------------------------------------------------------
(* Bounds of the model *)

MaxJobs == 2        \* threads alive or save_state timers pending at once
MaxTime == 2        \* Spec follows the clock up to this reading
MaxClock == 3       \* SpecGate follows the clock up to this reading
MaxE2EClock == 33   \* SpecE2E follows the clock up to this reading
MaxFileLen == 5     \* SpecFingerprint hashes the files of at most this many bytes

(* Program constants *)

PARTIAL_HASH_CHUNK == 2     \* 2 * 1024 * 1024 in the source, scaled to bytes of the model
DefaultCooldown == 30
MaxCooldown == 3600

----------------------------------------------------------------------------
(* Values the environment supplies *)

\* File contents the host writes
ContentA == <<0, 0, 0, 0, 0>>
ContentB == <<1>>
Contents == {ContentA, ContentB}

\* The files SpecFingerprint hashes: every file of at most MaxFileLen bytes,
\* each byte the ASCII code of "0" or of "1" (codes that also occur as digits
\* of the size)
FileBytes == {48, 49}
Files == UNION {[1..n -> FileBytes] : n \in 0..MaxFileLen}

\* A path is the list of the words of its base name.
NoPath == <<>>
ManualPath == <<"Scene">>
AutosavePath == <<"Scene", "AutoSave">>
Paths == {ManualPath, AutosavePath}

Webhooks == {"", "https://discord/hook"}
Messages == {"", "wip"}
CooldownChoices == {0, 2, DefaultCooldown}

\* depsgraph.updates: per update the categories its is_updated_* flags name
UpdateLists ==
    { <<>>,
      <<{}>>,
      <<{"Transform"}>>,
      <<{}, {"Geometry", "Shading"}>>,
      <<{"Transform"}, {"Geometry"}>> }

Min(a, b) == IF a < b THEN a ELSE b
Max(a, b) == IF a > b THEN a ELSE b

----------------------------------------------------------------------------
(* compute_partial_hash *)

\* str(size).encode("utf-8"): the ASCII codes of the decimal digits
RECURSIVE DecimalDigits(_)
DecimalDigits(n) ==
    IF n < 10 THEN <<48 + n>>
    ELSE DecimalDigits(n \div 10) \o <<48 + (n % 10)>>

\* f.read(count) at offset (0-based): at most count bytes, up to the end of the file
ReadAt(bytes, offset, count) ==
    SubSeq(bytes, offset + 1, Min(Len(bytes), offset + count))

\* Mutant: the trailing window is not read
compute_partial_hash_NoTail(bytes) ==
    LET size == Len(bytes)
        head == ReadAt(bytes, 0, PARTIAL_HASH_CHUNK)
    IN  head \o DecimalDigits(size)

\* SHA-1 is taken to be injective: the digest is the hashed byte stream itself.
compute_partial_hash(bytes) ==
    LET size == Len(bytes)
        head == ReadAt(bytes, 0, PARTIAL_HASH_CHUNK)
        tail == IF size > PARTIAL_HASH_CHUNK
                THEN ReadAt(bytes, Max(size - PARTIAL_HASH_CHUNK, 0), PARTIAL_HASH_CHUNK)
                ELSE <<>>
    IN  head \o tail \o DecimalDigits(size)

----------------------------------------------------------------------------
(* is_cooldown_active: <<active, remaining>> *)

\* Mutant: the never-sent test is missing
is_cooldown_active_NoNeverSent(s, clock) ==
    IF s.cooldown_seconds <= 0 THEN <<FALSE, 0>>
    ELSE LET elapsed == clock - s.last_send_time
             remaining == s.cooldown_seconds - elapsed
         IN  <<remaining > 0, Max(0, remaining)>>

\* Mutant: the cooldown lasts one second too long
is_cooldown_active_OffByOne(s, clock) ==
    IF s.last_send_time <= 0 THEN <<FALSE, 0>>
    ELSE IF s.cooldown_seconds <= 0 THEN <<FALSE, 0>>
    ELSE LET elapsed == clock - s.last_send_time
             remaining == s.cooldown_seconds - elapsed
         IN  <<remaining >= 0, Max(0, remaining)>>

is_cooldown_active(s, clock) ==
    IF s.last_send_time <= 0 THEN <<FALSE, 0>>
    ELSE IF s.cooldown_seconds <= 0 THEN <<FALSE, 0>>
    ELSE LET elapsed == clock - s.last_send_time
             remaining == s.cooldown_seconds - elapsed
         IN  <<remaining > 0, Max(0, remaining)>>

(* is_autosave *)

Lower(w) ==
    CASE w = "Scene" -> "scene"
      [] w = "AutoSave" -> "autosave"
      [] w = "Quit" -> "quit"
      [] OTHER -> w

is_autosave(path) ==
    \E i \in 1..Len(path) : Lower(path[i]) \in {"autosave", "quit"}

----------------------------------------------------------------------------
(* State after register() *)

DefaultSettings ==
    [ webhook_url |-> "",
      auto_send |-> FALSE,
      commit_message |-> "",
      cooldown_seconds |-> DefaultCooldown,
      last_send_time |-> 0,
      last_file_hash |-> <<>> ]

\* the arguments and locals of one process_send call
NoJob ==
    [ pc |-> "idle", filepath |-> NoPath, autosave |-> FALSE,
      current_hash |-> <<>>, archive |-> <<>> ]

NewJob(path, autosave, current_hash) ==
    [ pc |-> "compress", filepath |-> path, autosave |-> autosave,
      current_hash |-> current_hash, archive |-> <<>> ]

\* op: which code ran; kind: its outcome; notice: report_info was called;
\* status: set_status was called with a text; hashed: compute_partial_hash was
\* called; job: the job the step started or advanced
NoEvent ==
    [ op |-> "none", kind |-> "None", remaining |-> 0,
      notice |-> FALSE, status |-> FALSE, hashed |-> FALSE, job |-> NoJob ]

Init ==
    /\ settings = DefaultSettings
    /\ REAL_CHANGE_DETECTED = FALSE
    /\ CHANGE_TYPES = {}
    /\ filepath = NoPath
    /\ disk = <<>>
    /\ now = 1
    /\ jobs = EmptyBag
    /\ event = NoEvent

----------------------------------------------------------------------------
(* Jobs *)

Jobs == BagToSet(jobs)
Running(job) == job.pc \in {"compress", "upload"}
\* the number of process_send threads compressing or uploading
InFlight ==
    BagCardinality([job \in {r \in Jobs : Running(r)} |-> jobs[job]])

Add(bag, job) == bag (+) SetToBag({job})
Remove(bag, job) == bag (-) SetToBag({job})

\* threading.Thread(target=process_send, args=(...)).start()
StartThread(job) ==
    /\ BagCardinality(jobs) < MaxJobs
    /\ jobs' = Add(jobs, job)

----------------------------------------------------------------------------
(* on_depsgraph_update *)

RECURSIVE DepsgraphLoop(_, _)
DepsgraphLoop(updates, types) ==
    IF updates = <<>> THEN <<types, FALSE>>
    ELSE LET t == types \cup Head(updates)
         IN  IF t # {} THEN <<t, TRUE>>
             ELSE DepsgraphLoop(Tail(updates), t)

on_depsgraph_update(updates) ==
    /\ IF REAL_CHANGE_DETECTED
       THEN UNCHANGED <<CHANGE_TYPES, REAL_CHANGE_DETECTED>>
       ELSE LET r == DepsgraphLoop(updates, CHANGE_TYPES)
            IN  /\ CHANGE_TYPES' = r[1]
                /\ REAL_CHANGE_DETECTED' = r[2]
    /\ event' = NoEvent
    /\ UNCHANGED <<settings, filepath, disk, now, jobs>>

----------------------------------------------------------------------------
(* The gate of on_save_post and of DISCORDSEND_OT_SendNow.execute *)

Decision(op, kind, remaining, visible, hashed, job) ==
    [ op |-> op, kind |-> kind, remaining |-> remaining,
      notice |-> visible, status |-> visible, hashed |-> hashed, job |-> job ]

\* Mutant: the fingerprint comparison is missing, the latch alone decides
save_decision_LatchOnly(s, latch, clock, path, bytes) ==
    IF ~s.auto_send \/ path = NoPath \/ s.webhook_url = ""
    THEN Decision("save", "SkipNotConfigured", 0, FALSE, FALSE, NoJob)
    ELSE LET autosave == is_autosave(path)
             cd == is_cooldown_active(s, clock)
         IN  IF cd[1]
             THEN Decision("save", "SkipCooldown", cd[2], ~autosave, FALSE, NoJob)
             ELSE LET current_hash == compute_partial_hash(bytes)
                  IN  IF ~latch
                      THEN Decision("save", "SkipNoChange", 0, ~autosave, TRUE, NoJob)
                      ELSE Decision("save", "Send", 0, FALSE, TRUE,
                                    NewJob(path, autosave, current_hash))

\* Mutant: the latch is not consulted, the fingerprint comparison alone decides
save_decision_NoLatch(s, latch, clock, path, bytes) ==
    IF ~s.auto_send \/ path = NoPath \/ s.webhook_url = ""
    THEN Decision("save", "SkipNotConfigured", 0, FALSE, FALSE, NoJob)
    ELSE LET autosave == is_autosave(path)
             cd == is_cooldown_active(s, clock)
         IN  IF cd[1]
             THEN Decision("save", "SkipCooldown", cd[2], ~autosave, FALSE, NoJob)
             ELSE LET current_hash == compute_partial_hash(bytes)
                  IN  IF current_hash = s.last_file_hash
                      THEN Decision("save", "SkipNoChange", 0, ~autosave, TRUE, NoJob)
                      ELSE Decision("save", "Send", 0, FALSE, TRUE,
                                    NewJob(path, autosave, current_hash))

\* Mutant: the configuration test does not look at the webhook URL
save_decision_NoWebhookTest(s, latch, clock, path, bytes) ==
    IF ~s.auto_send \/ path = NoPath
    THEN Decision("save", "SkipNotConfigured", 0, FALSE, FALSE, NoJob)
    ELSE LET autosave == is_autosave(path)
             cd == is_cooldown_active(s, clock)
         IN  IF cd[1]
             THEN Decision("save", "SkipCooldown", cd[2], ~autosave, FALSE, NoJob)
             ELSE LET current_hash == compute_partial_hash(bytes)
                  IN  IF current_hash = s.last_file_hash \/ ~latch
                      THEN Decision("save", "SkipNoChange", 0, ~autosave, TRUE, NoJob)
                      ELSE Decision("save", "Send", 0, FALSE, TRUE,
                                    NewJob(path, autosave, current_hash))

\* Mutant: the skips of a save are shown for autosaves as well
save_decision_AlwaysVisible(s, latch, clock, path, bytes) ==
    IF ~s.auto_send \/ path = NoPath \/ s.webhook_url = ""
    THEN Decision("save", "SkipNotConfigured", 0, FALSE, FALSE, NoJob)
    ELSE LET autosave == is_autosave(path)
             cd == is_cooldown_active(s, clock)
         IN  IF cd[1]
             THEN Decision("save", "SkipCooldown", cd[2], TRUE, FALSE, NoJob)
             ELSE LET current_hash == compute_partial_hash(bytes)
                  IN  IF current_hash = s.last_file_hash \/ ~latch
                      THEN Decision("save", "SkipNoChange", 0, TRUE, TRUE, NoJob)
                      ELSE Decision("save", "Send", 0, FALSE, TRUE,
                                    NewJob(path, autosave, current_hash))

\* on_save_post, with bpy.data.filepath = path and the file holding bytes
save_decision(s, latch, clock, path, bytes) ==
    IF ~s.auto_send \/ path = NoPath \/ s.webhook_url = ""
    THEN Decision("save", "SkipNotConfigured", 0, FALSE, FALSE, NoJob)
    ELSE LET autosave == is_autosave(path)
             cd == is_cooldown_active(s, clock)
         IN  IF cd[1]
             THEN Decision("save", "SkipCooldown", cd[2], ~autosave, FALSE, NoJob)
             ELSE LET current_hash == compute_partial_hash(bytes)
                  IN  IF current_hash = s.last_file_hash \/ ~latch
                      THEN Decision("save", "SkipNoChange", 0, ~autosave, TRUE, NoJob)
                      ELSE Decision("save", "Send", 0, FALSE, TRUE,
                                    NewJob(path, autosave, current_hash))

\* Mutant: Send Now computes the fingerprint before it tests the cooldown
send_now_decision_HashFirst(s, latch, clock, path, exists, bytes) ==
    LET cd == is_cooldown_active(s, clock)
    IN  IF ~exists
        THEN Decision("send_now", "Error", 0, FALSE, FALSE, NoJob)
        ELSE LET current_hash == compute_partial_hash(bytes)
             IN  IF cd[1]
                 THEN Decision("send_now", "SkipCooldown", cd[2], TRUE, TRUE, NoJob)
                 ELSE IF current_hash = s.last_file_hash \/ ~latch
                 THEN Decision("send_now", "SkipNoChange", 0, TRUE, TRUE, NoJob)
                 ELSE Decision("send_now", "Send", 0, FALSE, TRUE,
                               NewJob(path, FALSE, current_hash))

\* DISCORDSEND_OT_SendNow.execute; exists: a file is saved at path
send_now_decision(s, latch, clock, path, exists, bytes) ==
    LET cd == is_cooldown_active(s, clock)
    IN  IF cd[1]
        THEN Decision("send_now", "SkipCooldown", cd[2], TRUE, FALSE, NoJob)
        ELSE IF ~exists
        THEN \* os.path.getsize raises: the operator fails
             Decision("send_now", "Error", 0, FALSE, FALSE, NoJob)
        ELSE LET current_hash == compute_partial_hash(bytes)
             IN  IF current_hash = s.last_file_hash \/ ~latch
                 THEN Decision("send_now", "SkipNoChange", 0, TRUE, TRUE, NoJob)
                 ELSE Decision("send_now", "Send", 0, FALSE, TRUE,
                               NewJob(path, FALSE, current_hash))

Decide(d) ==
    /\ event' = d
    /\ IF d.kind = "Send" THEN StartThread(d.job) ELSE UNCHANGED jobs

\* save_post: the host has written bytes to path (or, for a copy of a document
\* never saved, left bpy.data.filepath empty), then on_save_post runs.  The
\* document keeps the path of its first save.
HostSave(path, bytes) ==
    IF path = NoPath
    THEN filepath = NoPath /\ UNCHANGED <<filepath, disk>>
    ELSE /\ filepath \in {NoPath, path}
         /\ filepath' = path
         /\ disk' = [p \in DOMAIN disk \cup {path} |->
                        IF p = path THEN bytes ELSE disk[p]]

on_save_post(path, bytes) ==
    /\ HostSave(path, bytes)
    /\ Decide(save_decision(settings, REAL_CHANGE_DETECTED, now, path, bytes))
    /\ UNCHANGED <<settings, REAL_CHANGE_DETECTED, CHANGE_TYPES, now>>

SendNow_execute ==
    /\ Decide(send_now_decision(settings, REAL_CHANGE_DETECTED, now, filepath,
                                filepath \in DOMAIN disk,
                                IF filepath \in DOMAIN disk THEN disk[filepath] ELSE <<>>))
    /\ UNCHANGED <<settings, REAL_CHANGE_DETECTED, CHANGE_TYPES, filepath, disk, now>>

----------------------------------------------------------------------------
(* process_send, one blocking call per step *)

JobEvent(kind, notice, status, job) ==
    [ op |-> "job", kind |-> kind, remaining |-> 0,
      notice |-> notice, status |-> status, hashed |-> FALSE, job |-> job ]

JobFrame == UNCHANGED <<settings, REAL_CHANGE_DETECTED, CHANGE_TYPES, filepath, disk, now>>

\* compress_blend_7z returns: the archive holds the file as it is on disk now
CompressOk(job) ==
    /\ job.pc = "compress"
    /\ jobs' = Add(Remove(jobs, job),
                   [job EXCEPT !.pc = "upload", !.archive = disk[job.filepath]])
    /\ event' = NoEvent
    /\ JobFrame

\* Mutant: the failure is reported but the thread goes on to the upload
CompressFail_GoesOn(job) ==
    /\ job.pc = "compress"
    /\ jobs' = Add(Remove(jobs, job), [job EXCEPT !.pc = "upload"])
    /\ event' = JobEvent("CompressFailed", TRUE, FALSE, job)
    /\ JobFrame

\* compress_blend_7z raises (check=True): except branch, report_info; the thread ends
CompressFail(job) ==
    /\ job.pc = "compress"
    /\ jobs' = Remove(jobs, job)
    /\ event' = JobEvent("CompressFailed", TRUE, FALSE, job)
    /\ JobFrame

\* send_to_discord returns; save_state is registered as a timer; the thread ends
UploadOk(job) ==
    /\ job.pc = "upload"
    /\ settings.webhook_url # ""
    /\ jobs' = Add(Remove(jobs, job), [job EXCEPT !.pc = "commit"])
    /\ event' = JobEvent("Uploaded", FALSE, ~job.autosave, job)
    /\ JobFrame

\* Mutant: the except branch clears the change latch through the global
\* statement of process_send
UploadFail_ClearsLatch(job) ==
    /\ job.pc = "upload"
    /\ jobs' = Remove(jobs, job)
    /\ event' = JobEvent("UploadFailed", TRUE, FALSE, job)
    /\ REAL_CHANGE_DETECTED' = FALSE
    /\ UNCHANGED <<settings, CHANGE_TYPES, filepath, disk, now>>

\* Mutant: after a failed upload the thread reports and starts over
UploadFail_Retries(job) ==
    /\ job.pc = "upload"
    /\ jobs' = Add(Remove(jobs, job), [job EXCEPT !.pc = "compress", !.archive = <<>>])
    /\ event' = JobEvent("UploadFailed", TRUE, FALSE, job)
    /\ JobFrame

\* send_to_discord raises (bad URL, network, HTTP status, timeout); the thread ends
UploadFail(job) ==
    /\ job.pc = "upload"
    /\ jobs' = Remove(jobs, job)
    /\ event' = JobEvent("UploadFailed", TRUE, FALSE, job)
    /\ JobFrame

\* Mutant: the commit message is left for a later callback to clear
save_state_MessageLater(job) ==
    /\ job.pc = "commit"
    /\ settings' = [settings EXCEPT !.last_file_hash = job.current_hash,
                                    !.last_send_time = now]
    /\ CHANGE_TYPES' = {}
    /\ jobs' = Remove(jobs, job)
    /\ event' = JobEvent("Committed", FALSE, FALSE, job)
    /\ UNCHANGED <<REAL_CHANGE_DETECTED, filepath, disk, now>>

\* Mutant: the fingerprint of the job is not stored
save_state_KeepsHash(job) ==
    /\ job.pc = "commit"
    /\ settings' = [settings EXCEPT !.last_send_time = now,
                                    !.commit_message = ""]
    /\ CHANGE_TYPES' = {}
    /\ jobs' = Remove(jobs, job)
    /\ event' = JobEvent("Committed", FALSE, FALSE, job)
    /\ UNCHANGED <<REAL_CHANGE_DETECTED, filepath, disk, now>>

\* the timer runs save_state on the foreground context.  The assignment to
\* _REAL_CHANGE_DETECTED inside save_state binds a local of save_state (the
\* global statement of process_send does not reach the nested function), so
\* the module global keeps its value.
save_state(job) ==
    /\ job.pc = "commit"
    /\ settings' = [settings EXCEPT !.last_file_hash = job.current_hash,
                                    !.last_send_time = now,
                                    !.commit_message = ""]
    /\ CHANGE_TYPES' = {}
    /\ jobs' = Remove(jobs, job)
    /\ event' = JobEvent("Committed", FALSE, FALSE, job)
    /\ UNCHANGED <<REAL_CHANGE_DETECTED, filepath, disk, now>>

----------------------------------------------------------------------------
(* The property panel: the user edits a setting *)

UiFrame ==
    /\ event' = NoEvent
    /\ UNCHANGED <<REAL_CHANGE_DETECTED, CHANGE_TYPES, filepath, disk, now, jobs>>

SetWebhookUrl(u) ==
    /\ settings' = [settings EXCEPT !.webhook_url = u]
    /\ UiFrame

SetAutoSend(b) ==
    /\ settings' = [settings EXCEPT !.auto_send = b]
    /\ UiFrame

SetCommitMessage(m) ==
    /\ settings' = [settings EXCEPT !.commit_message = m]
    /\ UiFrame

SetCooldownSeconds(c) ==
    /\ settings' = [settings EXCEPT !.cooldown_seconds = c]
    /\ UiFrame

(* The monotonic clock advances *)

Tick(step, limit) ==
    /\ now + step <= limit
    /\ now' = now + step
    /\ event' = NoEvent
    /\ UNCHANGED <<settings, REAL_CHANGE_DETECTED, CHANGE_TYPES, filepath, disk, jobs>>

----------------------------------------------------------------------------

(* Spec: every interleaving of saves, Send Now requests, edits, property
   changes and job steps, for a document saved under its manual name *)

Next ==
    \/ \E updates \in UpdateLists : on_depsgraph_update(updates)
    \/ \E path \in {NoPath, ManualPath}, bytes \in Contents : on_save_post(path, bytes)
    \/ SendNow_execute
    \/ \E job \in Jobs : CompressOk(job)
    \/ \E job \in Jobs : CompressFail(job)
    \/ \E job \in Jobs : UploadOk(job)
    \/ \E job \in Jobs : UploadFail(job)
    \/ \E job \in Jobs : save_state(job)
    \/ \E u \in Webhooks : SetWebhookUrl(u)
    \/ \E b \in BOOLEAN : SetAutoSend(b)
    \/ \E m \in Messages : SetCommitMessage(m)
    \/ SetCooldownSeconds(0)
    \/ Tick(1, MaxTime)

Spec == Init /\ [][Next]_vars

(* SpecGate: the user saves or sends only when no job is live; every path,
   every cooldown choice *)

Quiet == jobs = EmptyBag

NextGate ==
    \/ \E updates \in UpdateLists : on_depsgraph_update(updates)
    \/ Quiet /\ \E path \in Paths \cup {NoPath}, bytes \in Contents : on_save_post(path, bytes)
    \/ Quiet /\ SendNow_execute
    \/ \E job \in Jobs : CompressOk(job)
    \/ \E job \in Jobs : CompressFail(job)
    \/ \E job \in Jobs : UploadOk(job)
    \/ \E job \in Jobs : UploadFail(job)
    \/ \E job \in Jobs : save_state(job)
    \/ \E u \in Webhooks : SetWebhookUrl(u)
    \/ \E b \in BOOLEAN : SetAutoSend(b)
    \/ \E c \in CooldownChoices : SetCooldownSeconds(c)
    \/ Tick(1, MaxClock)

SpecGate == Init /\ [][NextGate]_vars

(* SpecLive: SpecGate with the blocking calls returning.  subprocess.run
   returns or raises, urlopen returns, raises or times out after 30 s, and
   the host runs a registered timer: a live job or a pending save_state is
   not left waiting for ever. *)

JobStep ==
    \E job \in Jobs :
        \/ CompressOk(job) \/ CompressFail(job)
        \/ UploadOk(job) \/ UploadFail(job)
        \/ save_state(job)

SpecLive == Init /\ [][NextGate]_vars /\ WF_vars(JobStep)

(* SpecE2E: the default cooldown of 30 seconds, the clock read 2 or 29
   seconds later *)

NextE2E ==
    \/ \E updates \in UpdateLists : on_depsgraph_update(updates)
    \/ Quiet /\ \E bytes \in Contents : on_save_post(ManualPath, bytes)
    \/ Quiet /\ SendNow_execute
    \/ \E job \in Jobs : CompressOk(job)
    \/ \E job \in Jobs : CompressFail(job)
    \/ \E job \in Jobs : UploadOk(job)
    \/ \E job \in Jobs : UploadFail(job)
    \/ \E job \in Jobs : save_state(job)
    \/ \E u \in Webhooks : SetWebhookUrl(u)
    \/ \E b \in BOOLEAN : SetAutoSend(b)
    \/ \E step \in {2, 29} : Tick(step, MaxE2EClock)

SpecE2E == Init /\ [][NextE2E]_vars

(* SpecRestart: the host is closed and the document opened again *)

\* The user saves, quits and opens the document in a new process: the
\* settings come back as they were saved with the document (on_save_post
\* does not write them, so they are the settings of the save just made),
\* the module globals are initialised again (lines 25-26), the daemon
\* threads are gone, and time.monotonic() of the new process reads clock.
Restart(clock) ==
    /\ event.op = "save"
    /\ filepath # NoPath
    /\ REAL_CHANGE_DETECTED' = FALSE
    /\ CHANGE_TYPES' = {}
    /\ jobs' = EmptyBag
    /\ now' = clock
    /\ event' = NoEvent
    /\ UNCHANGED <<settings, filepath, disk>>

NextRestart ==
    \/ \E updates \in UpdateLists : on_depsgraph_update(updates)
    \/ Quiet /\ \E bytes \in Contents : on_save_post(ManualPath, bytes)
    \/ Quiet /\ SendNow_execute
    \/ \E job \in Jobs : CompressOk(job)
    \/ \E job \in Jobs : CompressFail(job)
    \/ \E job \in Jobs : UploadOk(job)
    \/ \E job \in Jobs : UploadFail(job)
    \/ \E job \in Jobs : save_state(job)
    \/ \E u \in Webhooks : SetWebhookUrl(u)
    \/ \E b \in BOOLEAN : SetAutoSend(b)
    \/ \E c \in CooldownChoices : SetCooldownSeconds(c)
    \/ Tick(1, MaxClock)
    \/ \E clock \in 1..MaxClock : Restart(clock)

SpecRestart == Init /\ [][NextRestart]_vars

(* SpecFingerprint: compute_partial_hash applied to every bounded file, and
   again after the host has rewritten the file *)

\* one call of compute_partial_hash on the file holding bytes; previous: the
\* event of the call before it
FingerprintEvent(bytes, previous) ==
    [ op |-> "compute_partial_hash", kind |-> "None",
      bytes |-> bytes, digest |-> compute_partial_hash(bytes),
      previous_bytes |-> IF previous.op = "compute_partial_hash"
                         THEN previous.bytes ELSE <<>>,
      previous_digest |-> IF previous.op = "compute_partial_hash"
                          THEN previous.digest ELSE <<>> ]

InitFingerprint ==
    /\ settings = DefaultSettings
    /\ REAL_CHANGE_DETECTED = FALSE
    /\ CHANGE_TYPES = {}
    /\ filepath = ManualPath
    /\ \E bytes \in Files : disk = [p \in {ManualPath} |-> bytes]
    /\ now = 1
    /\ jobs = EmptyBag
    /\ event = NoEvent

\* the file is hashed as it lies on disk
FingerprintFile ==
    /\ event' = FingerprintEvent(disk[filepath], event)
    /\ UNCHANGED <<settings, REAL_CHANGE_DETECTED, CHANGE_TYPES, filepath, disk, now, jobs>>

\* the host writes bytes to the file, then the file is hashed (line 282)
FingerprintAfterSave(bytes) ==
    /\ HostSave(filepath, bytes)
    /\ event' = FingerprintEvent(bytes, event)
    /\ UNCHANGED <<settings, REAL_CHANGE_DETECTED, CHANGE_TYPES, now, jobs>>

NextFingerprint ==
    \/ FingerprintFile
    \/ \E bytes \in Files : FingerprintAfterSave(bytes)

SpecFingerprint == InitFingerprint /\ [][NextFingerprint]_vars

----------------------------------------------------------------------------
(* Properties *)

Configured == settings.auto_send /\ filepath # NoPath /\ settings.webhook_url # ""
CooldownActive == is_cooldown_active(settings, now)[1]
GateRan == event.op \in {"save", "send_now"}
\* the fingerprint of the file bpy.data.filepath names
FileHash == compute_partial_hash(disk[filepath])

\* C1: at most one upload job is compressing or uploading at any time.
C1_AtMostOneJobInFlight == InFlight <= 1

\* C2: a job whose compression fails writes nothing to the State Store
\* (last_file_hash, last_send_time and commit_message keep their values), and
\* the job ends there: it never reaches the upload and leaves no save_state
\* timer behind.
C2_CompressFailureKeepsState ==
    /\ [](event.kind = "CompressFailed" =>
            /\ event.job.pc = "compress"
            /\ event.job.archive = <<>>)
    /\ [][event'.kind = "CompressFailed" =>
            /\ settings' = settings
            /\ jobs' = Remove(jobs, event'.job)]_vars

C2_Witness ==
    /\ event.kind = "CompressFailed"
    /\ settings.commit_message = "wip"
    /\ settings.last_send_time > 0
    /\ settings.last_file_hash # <<>>

\* C3: a job whose upload fails writes nothing to the State Store and ends;
\* afterwards a save of the same content, with the feature configured and the
\* stored fingerprint and cooldown as the job found them, passes the gate
\* again and can start a new job.
C3_UploadFailureAllowsRetry ==
    /\ [](event.kind = "UploadFailed" =>
            \A bytes \in Contents :
                (/\ compute_partial_hash(bytes) = event.job.current_hash
                 /\ settings.auto_send /\ settings.webhook_url # ""
                 /\ settings.last_file_hash # event.job.current_hash
                 /\ ~CooldownActive)
                => /\ save_decision(settings, REAL_CHANGE_DETECTED, now,
                                    event.job.filepath, bytes).kind = "Send"
                   /\ BagCardinality(jobs) < MaxJobs)
    /\ [][event'.kind = "UploadFailed" =>
            /\ settings' = settings
            /\ jobs' = Remove(jobs, event'.job)]_vars

C3_Witness ==
    /\ event.kind = "UploadFailed"
    /\ settings.auto_send /\ settings.webhook_url # ""
    /\ settings.last_file_hash # event.job.current_hash
    /\ settings.commit_message = "wip"
    /\ ~CooldownActive
    /\ FileHash = event.job.current_hash

\* C4: the State Store is written in one step, by save_state alone: a step
\* that changes last_file_hash or last_send_time is the commit of a job whose
\* upload succeeded, and it sets last_file_hash to the job's fingerprint,
\* last_send_time to the clock and commit_message to empty, all together,
\* leaving the other settings alone.
C4_CommitIsAtomic ==
    [][(\/ settings'.last_file_hash # settings.last_file_hash
        \/ settings'.last_send_time # settings.last_send_time
        \/ event'.kind = "Committed")
       => /\ event'.kind = "Committed"
          /\ event'.job.pc = "commit"
          /\ event'.job \in Jobs
          /\ settings' = [settings EXCEPT !.last_file_hash = event'.job.current_hash,
                                          !.last_send_time = now,
                                          !.commit_message = ""]]_vars

C4_Witness ==
    /\ event.kind = "Committed"
    /\ settings.last_file_hash = event.job.current_hash
    /\ settings.last_send_time = now
    /\ settings.commit_message = ""
    /\ jobs # EmptyBag

\* the request went past the configuration test of on_save_post (Send Now has none)
ReachedCooldownRule ==
    \/ event.op = "send_now"
    \/ event.op = "save" /\ Configured
Elapsed == now - settings.last_send_time

\* C5: on a project that has never sent (last_send_time zero) the gate never
\* answers SkipCooldown, whatever cooldown_seconds in 0..3600 and whatever the
\* clock reads.
C5_NeverSentNeverCooldown ==
    (GateRan /\ settings.last_send_time = 0) =>
        /\ event.kind # "SkipCooldown"
        /\ \A cd \in 0..MaxCooldown :
              ~is_cooldown_active([settings EXCEPT !.cooldown_seconds = cd], now)[1]

C5_Witness ==
    /\ event.op = "save"
    /\ event.kind = "Send"
    /\ settings.last_send_time = 0
    /\ settings.cooldown_seconds = DefaultCooldown
    /\ now > 1

\* C6: with last_send_time set and cooldown_seconds > 0, a request that reaches
\* the cooldown rule while elapsed = now - last_send_time is below
\* cooldown_seconds is answered SkipCooldown with remaining = cooldown_seconds
\* - elapsed, computes no fingerprint and starts no job; once elapsed has
\* reached cooldown_seconds the answer is never SkipCooldown: the fingerprint
\* is computed and the answer is SkipNoChange or Send, Send only for a
\* fingerprint that differs from the stored one.  For 30 seconds: 29 s after
\* the send gives SkipCooldown(1), 31 s after gives no cooldown.
C6_CooldownWindow ==
    /\ []((ReachedCooldownRule /\ settings.last_send_time > 0
                               /\ settings.cooldown_seconds > 0) =>
            IF Elapsed < settings.cooldown_seconds
            THEN /\ event.kind = "SkipCooldown"
                 /\ event.remaining = settings.cooldown_seconds - Elapsed
                 /\ ~event.hashed
                 /\ event.job = NoJob
            ELSE /\ event.kind \in {"SkipNoChange", "Send"}
                 /\ event.hashed
                 /\ event.kind = "Send" => FileHash # settings.last_file_hash
                 /\ FileHash = settings.last_file_hash => event.kind = "SkipNoChange")
    /\ [](LET s == [settings EXCEPT !.cooldown_seconds = 30, !.last_send_time = now]
          IN  /\ is_cooldown_active(s, now + 29) = <<TRUE, 1>>
              /\ is_cooldown_active(s, now + 31) = <<FALSE, 0>>)
    /\ [][event'.kind = "SkipCooldown" => jobs' = jobs]_vars

C6_Witness ==
    /\ event.op = "save"
    /\ event.kind = "SkipCooldown"
    /\ event.remaining = 1
    /\ settings.cooldown_seconds = 2
    /\ Elapsed = 1
    /\ FileHash # settings.last_file_hash

\* C7: with the feature configured and the cooldown inactive, a save whose
\* file fingerprint equals last_file_hash is answered SkipNoChange: no job is
\* started and the State Store is unchanged.
C7_UnchangedFileSkips ==
    /\ []((event.op = "save" /\ Configured /\ ~CooldownActive
                             /\ FileHash = settings.last_file_hash) =>
            /\ event.kind = "SkipNoChange"
            /\ event.job = NoJob)
    /\ [][event'.kind = "SkipNoChange" => jobs' = jobs /\ settings' = settings]_vars

C7_Witness ==
    /\ event.op = "save"
    /\ event.kind = "SkipNoChange"
    /\ Configured /\ ~CooldownActive
    /\ FileHash = settings.last_file_hash
    /\ REAL_CHANGE_DETECTED
    /\ settings.cooldown_seconds = 2

\* C8 as stated: configured, cooldown inactive and a fingerprint that differs
\* from last_file_hash always give Send, whatever the edit-observed flag.
C8_SendWheneverFingerprintDiffers ==
    (event.op = "save" /\ Configured /\ ~CooldownActive
                       /\ FileHash # settings.last_file_hash) =>
        /\ event.kind = "Send"
        /\ event.job \in Jobs

\* C8 amended: configured, cooldown inactive and a fingerprint that differs
\* from last_file_hash give Send(fp) and a started job exactly when
\* _REAL_CHANGE_DETECTED is set; with the flag clear the answer is
\* SkipNoChange and no job starts.  The same holds for Send Now on a saved file.
C8_SendNeedsLatch ==
    (ReachedCooldownRule /\ filepath # NoPath /\ ~CooldownActive
                         /\ FileHash # settings.last_file_hash) =>
        IF REAL_CHANGE_DETECTED
        THEN /\ event.kind = "Send"
             /\ event.job = NewJob(filepath, event.op = "save" /\ is_autosave(filepath),
                                   FileHash)
             /\ event.job \in Jobs
        ELSE /\ event.kind = "SkipNoChange"
             /\ event.job = NoJob
             /\ jobs = EmptyBag

C8_Witness ==
    /\ event.op = "save"
    /\ event.kind = "SkipNoChange"
    /\ Configured /\ ~CooldownActive
    /\ FileHash # settings.last_file_hash
    /\ ~REAL_CHANGE_DETECTED

\* the scenario of C9: auto-send on, endpoint set, the default cooldown, a save
E2ESave ==
    /\ event.op = "save"
    /\ Configured
    /\ settings.cooldown_seconds = 30
NeverSent == settings.last_send_time = 0 /\ settings.last_file_hash = <<>>

\* C9 as stated, read with an edit observed before the first save: from a
\* never-sent project the first save is answered Send; the commit stores the
\* fingerprint of the saved file and the clock; an immediate save of the
\* unchanged file is answered SkipNoChange; a save of changed content within
\* 30 s SkipCooldown; a save of changed content 31 s or more after the send,
\* Send.
C9_ScenarioAsStated ==
    /\ (E2ESave /\ NeverSent /\ REAL_CHANGE_DETECTED) => event.kind = "Send"
    /\ event.kind = "Committed" =>
          /\ settings.last_file_hash = FileHash
          /\ settings.last_send_time = now
    /\ (E2ESave /\ ~NeverSent /\ FileHash = settings.last_file_hash /\ Elapsed = 0)
          => event.kind = "SkipNoChange"
    /\ (E2ESave /\ ~NeverSent /\ FileHash # settings.last_file_hash /\ Elapsed < 30)
          => event.kind = "SkipCooldown"
    /\ (E2ESave /\ ~NeverSent /\ FileHash # settings.last_file_hash /\ Elapsed >= 31)
          => event.kind = "Send"

\* C9 amended: from a never-sent project the first save is answered Send once
\* an edit has been observed (SkipNoChange before that); the commit stores
\* the fingerprint of the saved file and the clock; a save within 30 s of the
\* send is answered SkipCooldown whether or not the content changed (the
\* cooldown is tested before the fingerprint); 30 s or more after the send a
\* save of the unchanged file is answered SkipNoChange and a save of changed
\* content Send.
C9_Scenario ==
    /\ (E2ESave /\ NeverSent) =>
          event.kind = (IF REAL_CHANGE_DETECTED THEN "Send" ELSE "SkipNoChange")
    /\ event.kind = "Committed" =>
          /\ settings.last_file_hash = FileHash
          /\ settings.last_file_hash = event.job.current_hash
          /\ settings.last_send_time = now
    /\ (E2ESave /\ ~NeverSent /\ Elapsed < 30) =>
          /\ event.kind = "SkipCooldown"
          /\ event.remaining = 30 - Elapsed
    /\ (E2ESave /\ ~NeverSent /\ FileHash = settings.last_file_hash /\ Elapsed >= 30)
          => event.kind = "SkipNoChange"
    /\ (E2ESave /\ ~NeverSent /\ FileHash # settings.last_file_hash /\ Elapsed >= 30)
          => event.kind = "Send" /\ event.job \in Jobs

C9_Witness ==
    /\ E2ESave
    /\ event.kind = "Send"
    /\ settings.last_file_hash = compute_partial_hash(ContentA)
    /\ disk[filepath] = ContentB
    /\ Elapsed = 31

\* C10: no gate decision is taken between the success of a job's upload and
\* the State Store write of that job, so no decision reads the pre-upload
\* last_file_hash or last_send_time.
C10_GateSeesCommittedState ==
    (GateRan /\ event.kind \in {"SkipCooldown", "SkipNoChange", "Send"}) =>
        \A job \in Jobs : job.pc # "commit"


\* the uploads that succeeded and whose save_state has not run yet
AwaitingCommit == {job \in Jobs : job.pc = "commit"}
UploadedNotCommitted ==
    BagCardinality([job \in AwaitingCommit |-> jobs[job]])

\* C11: unchanged content is never delivered twice.  Before the first commit
\* every successful upload is still awaiting its save_state, so when all of
\* them carry one fingerprint (no upload of another fingerprint lies between
\* them) there is at most one of them.
C11_NoDuplicateUpload ==
    (/\ settings.last_send_time = 0
     /\ \A j, k \in AwaitingCommit : j.current_hash = k.current_hash)
    => UploadedNotCommitted <= 1

\* C12: a save with auto_send off, an empty bpy.data.filepath or an empty
\* webhook_url is a silent skip, whatever the cooldown, the file and the
\* change latch are: the answer is SkipNotConfigured, no job is started, no
\* status and no notice is shown, no fingerprint is computed and no cooldown
\* is reported, and the State Store and the jobs are left as they were.
C12_UnconfiguredSaveIsSilent ==
    /\ []((event.op = "save" /\ ~Configured) =>
            /\ event.kind = "SkipNotConfigured"
            /\ event.job = NoJob
            /\ ~event.notice /\ ~event.status
            /\ ~event.hashed
            /\ event.remaining = 0)
    /\ [][(event'.op = "save" /\ ~Configured') =>
            /\ settings' = settings
            /\ jobs' = jobs]_vars

C12_Witness ==
    /\ event.op = "save"
    /\ event.kind = "SkipNotConfigured"
    /\ settings.auto_send /\ filepath # NoPath /\ settings.webhook_url = ""
    /\ CooldownActive
    /\ REAL_CHANGE_DETECTED
    /\ FileHash # settings.last_file_hash

IsSkip == event.kind \in {"SkipNoChange", "SkipCooldown"}
JobFailed == event.kind \in {"CompressFailed", "UploadFailed"}

\* C13: a no-change or cooldown skip of a save whose file name contains
\* "autosave" or "quit" shows no status and no notice; the same skips of a
\* save under any other name and of Send Now show a status and a notice;
\* every failure of a job shows a notice, for autosave jobs as for the
\* others.
C13_Visibility ==
    /\ (event.op = "save" /\ IsSkip) =>
          /\ event.notice = ~is_autosave(filepath)
          /\ event.status = ~is_autosave(filepath)
    /\ (event.op = "send_now" /\ IsSkip) => event.notice /\ event.status
    /\ JobFailed => event.notice
    /\ \A path \in {AutosavePath, <<"Quit", "Scene">>}, bytes \in Contents :
          LET d == save_decision(settings, REAL_CHANGE_DETECTED, now, path, bytes)
          IN  d.kind \in {"SkipNoChange", "SkipCooldown"} => ~d.notice /\ ~d.status

C13_Witness ==
    /\ event.op = "save"
    /\ event.kind = "SkipCooldown"
    /\ is_autosave(filepath)
    /\ ~event.notice /\ ~event.status
    /\ FileHash # settings.last_file_hash

\* the positions (1-based) of the leading and of the trailing window of a
\* file of size bytes
InHead(i) == i <= PARTIAL_HASH_CHUNK
InTail(i, size) == size > PARTIAL_HASH_CHUNK /\ i > size - PARTIAL_HASH_CHUNK
TwoCalls == event.op = "compute_partial_hash" /\ event.previous_digest # <<>>
Differing == {i \in 1..Len(event.bytes) : event.bytes[i] # event.previous_bytes[i]}

\* C14: for two consecutive calls of compute_partial_hash on a file: when the
\* file was not modified between them the digests are equal; when its length
\* changed, or a byte within the first PARTIAL_HASH_CHUNK bytes or (for a
\* file longer than PARTIAL_HASH_CHUNK) within the last PARTIAL_HASH_CHUNK
\* bytes changed, the digests differ; when the file is longer than
\* 2 * PARTIAL_HASH_CHUNK and only bytes strictly between the two windows
\* changed, the digests are equal.
C14_FingerprintWindows ==
    TwoCalls =>
        LET size == Len(event.bytes)
            same == event.digest = event.previous_digest
        IN  /\ event.digest = compute_partial_hash(disk[filepath])
            /\ event.bytes = event.previous_bytes => same
            /\ size # Len(event.previous_bytes) => ~same
            /\ (/\ size = Len(event.previous_bytes)
                /\ \E i \in Differing : InHead(i) \/ InTail(i, size)) => ~same
            /\ (/\ size = Len(event.previous_bytes)
                /\ size > 2 * PARTIAL_HASH_CHUNK
                /\ \A i \in Differing : ~InHead(i) /\ ~InTail(i, size)) => same

C14_Witness ==
    /\ TwoCalls
    /\ Len(event.bytes) = Len(event.previous_bytes)
    /\ Len(event.bytes) > 2 * PARTIAL_HASH_CHUNK
    /\ Differing # {}
    /\ \A i \in Differing : ~InHead(i) /\ ~InTail(i, Len(event.bytes))
    /\ event.digest = event.previous_digest

\* C15: the commit of a successful job resets the change latch: right after
\* save_state has run, _REAL_CHANGE_DETECTED is false and _CHANGE_TYPES is
\* empty.
C15_CommitResetsLatch ==
    event.kind = "Committed" =>
        /\ ~REAL_CHANGE_DETECTED
        /\ CHANGE_TYPES = {}

\* C16: a clock that reads earlier than last_send_time is treated as no time
\* elapsed: the remaining time the gate reports with SkipCooldown never
\* exceeds cooldown_seconds.
C16_RemainingWithinCooldown ==
    event.kind = "SkipCooldown" => event.remaining <= settings.cooldown_seconds

JobEnded == event.kind \in {"Committed", "CompressFailed", "UploadFailed"}

\* C17: a started job ends, and ends in one of two ways: its save_state
\* writes the State Store and no notice is shown, or one error notice is
\* shown and nothing is written.  A step that shows a job's notice ends that
\* job; a job leaves only by its commit or its failure; and a job appears
\* only when a save or Send Now is answered Send, so a failed job does not
\* start again by itself.
C17_JobEndsOnce ==
    /\ ~Quiet ~> (Quiet /\ JobEnded)
    /\ [][(event'.op = "job" /\ event'.notice) =>
            /\ event'.kind \in {"CompressFailed", "UploadFailed"}
            /\ event'.job \in Jobs
            /\ jobs' = Remove(jobs, event'.job)
            /\ settings' = settings]_vars
    /\ [][event'.kind = "Committed" =>
            /\ ~event'.notice
            /\ event'.job \in Jobs /\ event'.job.pc = "commit"
            /\ jobs' = Remove(jobs, event'.job)
            /\ settings'.last_file_hash = event'.job.current_hash]_vars
    /\ [][BagCardinality(jobs') < BagCardinality(jobs) => JobEnded']_vars
    /\ [][BagCardinality(jobs') > BagCardinality(jobs) =>
            GateRan' /\ event'.kind = "Send"]_vars

C17_Witness ==
    /\ event.kind = "CompressFailed"
    /\ event.job.autosave
    /\ Quiet
    /\ settings.last_send_time > 0

\* C18: a save or a Send Now handled while the cooldown is active computes
\* no fingerprint: whenever compute_partial_hash was called the cooldown was
\* not active, and a request that reaches the cooldown rule while it is
\* active is answered SkipCooldown without a file read.
C18_NoHashDuringCooldown ==
    /\ (GateRan /\ CooldownActive) => ~event.hashed
    /\ (ReachedCooldownRule /\ CooldownActive) => event.kind = "SkipCooldown"
    /\ event.hashed => ~CooldownActive

C18_Witness ==
    /\ event.op = "send_now"
    /\ event.kind = "SkipCooldown"
    /\ ~event.hashed
    /\ REAL_CHANGE_DETECTED
    /\ FileHash # settings.last_file_hash

\* C19: a job is started only with a file path and a webhook URL that are
\* not empty, and a save or Send Now made while the webhook URL is empty or
\* the document was never saved is a silent skip: no error, no job.
C19_StartedJobsAreConfigured ==
    /\ (GateRan /\ event.kind = "Send") =>
          /\ event.job.filepath # NoPath
          /\ settings.webhook_url # ""
    /\ (GateRan /\ (settings.webhook_url = "" \/ filepath = NoPath)) =>
          /\ event.kind \notin {"Error", "Send"}
          /\ ~event.notice /\ ~event.status
          /\ event.job = NoJob

\* C20: the fingerprint a job commits is the fingerprint of the bytes it
\* compressed and uploaded, also when the file was saved again between the
\* gate decision and the compression.
C20_CommittedHashIsOfUploadedBytes ==
    event.kind = "Committed" =>
        settings.last_file_hash = compute_partial_hash(event.job.archive)

====
